---- MODULE Spec2Model ----
(***************************************************************************)
(* Payment reconciliation and device provisioning engine                   *)
(* (src/unnamed/part_000, the "SAFE" variant of the backend).              *)
(*                                                                         *)
(* The program runs on a single-threaded event loop: a handler runs        *)
(* without interruption until it waits on device I/O (mikrotik.connect or  *)
(* mikrotik.write).  Every action below is one such uninterrupted run: an  *)
(* HTTP handler up to its first device wait, the continuation after a      *)
(* device call returns, a timer callback, an error callback.               *)
(***************************************************************************)
EXTENDS Integers, Sequences, FiniteSets, TLC

(***************************************************************************)
(* Bounds of the model                                                     *)
(***************************************************************************)
MaxSessions == 2   \* calls of /ussd/init that create a session
MaxSms      == 2   \* deliveries to /sms/incoming
MaxTimers   == 2   \* reconnection timers pending at once

(***************************************************************************)
(* Program constants                                                       *)
(***************************************************************************)
ExpiryMs == 7 * 60 * 1000

profileMap == [o \in {"1h", "5h", "24h"} |->
                 CASE o = "1h"  -> "1Heure"
                   [] o = "5h"  -> "5Heures"
                   [] o = "24h" -> "24Heures"]

(***************************************************************************)
(* Strings are sequences of one-character strings.                         *)
(***************************************************************************)
Digit == {"0", "1", "2", "3", "4", "5", "6", "7", "8", "9"}

DigitVal(c) ==
  CASE c = "0" -> 0 [] c = "1" -> 1 [] c = "2" -> 2 [] c = "3" -> 3
    [] c = "4" -> 4 [] c = "5" -> 5 [] c = "6" -> 6 [] c = "7" -> 7
    [] c = "8" -> 8 [] c = "9" -> 9

\* s.slice(-n)
SliceLast(s, n) ==
  IF Len(s) <= n THEN s ELSE SubSeq(s, Len(s) - n + 1, Len(s))

\* phone.replace(/\D/g, '').slice(-9)
normalizePhone(phone) ==
  SliceLast(SelectSeq(phone, LAMBDA c : c \in Digit), 9)

\* Number(s) for a string of decimal digits
RECURSIVE Number(_)
Number(s) ==
  IF s = <<>> THEN 0
  ELSE 10 * Number(SubSeq(s, 1, Len(s) - 1)) + DigitVal(s[Len(s)])

\* Number(amountMatch[1].replace(/[ ,\.]/g, ''))
ParseAmount(text) ==
  Number(SelectSeq(text, LAMBDA c : c \notin {" ", ",", "."}))

ToLower(c) ==
  CASE c = "M" -> "m" [] c = "V" -> "v" [] c = "O" -> "o"
    [] c = "L" -> "l" [] c = "A" -> "a" [] OTHER -> c

\* /mvola/i.test(sender)
IsMvola(sender) ==
  \E i \in 1..Len(sender) :
     /\ i + 4 <= Len(sender)
     /\ [k \in 1..5 |-> ToLower(sender[i + k - 1])] = <<"m", "v", "o", "l", "a">>

(***************************************************************************)
(* Inputs of the model                                                     *)
(***************************************************************************)
PhoneA    == <<"0", "3", "2", " ", "1", "2", " ", "3", "4", "5", " ", "6", "7">>
SmsPhoneA == <<"0", "3", "2", "1", "2", "3", "4", "5", "6", "7">>
SmsPhoneB == <<"0", "3", "3", "1", "2", "3", "4", "5", "6", "7">>

\* Bodies of POST /ussd/init: a valid one, one whose offer has no profile,
\* and one for each missing parameter.
IntakeRequests ==
  {[phone |-> PhoneA, amount |-> 1000, offer |-> "1h"],
   [phone |-> PhoneA, amount |-> 1000, offer |-> "2h"],
   [phone |-> <<>>,   amount |-> 1000, offer |-> "1h"],
   [phone |-> PhoneA, amount |-> 0,    offer |-> "1h"],
   [phone |-> PhoneA, amount |-> 1000, offer |-> ""]}

MVola  == <<"M", "V", "o", "l", "a">>
Orange == <<"O", "r", "a", "n", "g", "e">>

\* A message is given by what the two regular expressions of the handler
\* capture in it (<<>>: the expression does not match); empty: message === ''.
Message(amt, phone) == [empty |-> FALSE, amt |-> amt, phone |-> phone]

Amount1000 == <<"1", " ", "0", "0", "0">>
Amount2000 == <<"2", "0", "0", "0">>

\* Bodies of POST /sms/incoming: the confirmation of 1000 Ar from PhoneA, the
\* same with another amount, phone or sender, and one for each early return.
Notifications ==
  {[sender |-> MVola,  message |-> Message(Amount1000, SmsPhoneA)],
   [sender |-> MVola,  message |-> Message(Amount2000, SmsPhoneA)],
   [sender |-> MVola,  message |-> Message(Amount1000, SmsPhoneB)],
   [sender |-> Orange, message |-> Message(Amount1000, SmsPhoneA)],
   [sender |-> <<>>,   message |-> Message(Amount1000, SmsPhoneA)],
   [sender |-> MVola,  message |-> [empty |-> TRUE, amt |-> <<>>, phone |-> <<>>]],
   [sender |-> MVola,  message |-> Message(<<>>, SmsPhoneA)],
   [sender |-> MVola,  message |-> Message(Amount1000, <<>>)]}

\* username / password pairs Math.random() can produce
Creds == {[username |-> "SD-aaaaa", password |-> "pppppp"],
          [username |-> "SD-bbbbb", password |-> "qqqqqq"]}

NoCreds == [username |-> "", password |-> ""]

Handlers == 1..MaxSms

(***************************************************************************)
(* State                                                                   *)
(***************************************************************************)
VARIABLES
  pendingPayments,  \* the registry, in insertion order (Object.keys order);
                    \* an entry carries age = Date.now() - createdAt, which is
                    \* all the program ever reads of createdAt
  vouchers,         \* sessionId -> voucher
  mikrotikReady,
  reconnecting,
  connected,        \* the connection object's socket is open
  connectCalls,     \* callers of connectMikrotik waiting on mikrotik.connect()
  timers,           \* pending setTimeout(connectMikrotik, 5000)
  hotspotUsers,     \* users on the controller: [name, by]
  sms,              \* one record per /sms/incoming request
  nextId            \* sessions created so far + 1 (uuidv4 never repeats)

vars == <<pendingPayments, vouchers, mikrotikReady, reconnecting, connected,
          connectCalls, timers, hotspotUsers, sms, nextId>>

Caller(kind, h) == [kind |-> kind, h |-> h]

IdleSms == [pc |-> "idle", sid |-> 0, creds |-> NoCreds, outcome |-> "",
            acks |-> 0]

\* The state when app.listen's callback has run: connectMikrotik() has passed
\* its guard and waits on mikrotik.connect().
Init ==
  /\ pendingPayments = <<>>
  /\ vouchers = <<>>
  /\ mikrotikReady = FALSE
  /\ reconnecting = TRUE
  /\ connected = FALSE
  /\ connectCalls = {Caller("startup", 0)}
  /\ timers = 0
  /\ hotspotUsers = {}
  /\ sms = [h \in Handlers |-> IdleSms]
  /\ nextId = 1

(***************************************************************************)
(* Registry and voucher store helpers                                      *)
(***************************************************************************)
Ids(reg) == {reg[i].id : i \in DOMAIN reg}

Entry(reg, sid) == reg[CHOOSE i \in DOMAIN reg : reg[i].id = sid]

\* delete pendingPayments[sessionId]
Remove(reg, sid) == SelectSeq(reg, LAMBDA p : p.id # sid)

\* (mutant: every entry with the amount and phone of the one found is marked)
ConfirmSameKey(reg, sid) ==
  LET p == reg[CHOOSE i \in DOMAIN reg : reg[i].id = sid]
  IN  [i \in DOMAIN reg |->
         IF reg[i].amount = p.amount /\ reg[i].phone = p.phone
           THEN [reg[i] EXCEPT !.status = "CONFIRMED"] ELSE reg[i]]

\* payment.status = 'CONFIRMED'
Confirm(reg, sid) ==
  [i \in DOMAIN reg |->
     IF reg[i].id = sid THEN [reg[i] EXCEPT !.status = "CONFIRMED"] ELSE reg[i]]

\* (mutant: the store is replaced by one that holds the new voucher alone)
PutAlone(store, sid, voucher) == [k \in {sid} |-> voucher]

\* vouchers[sessionId] = voucher
Put(store, sid, voucher) ==
  [k \in DOMAIN store \cup {sid} |-> IF k = sid THEN voucher ELSE store[k]]

\* GET /voucher/status/:sessionId
get_voucher(sid) ==
  IF sid \in DOMAIN vouchers
    THEN [success |-> TRUE, voucher |-> vouchers[sid]]
    ELSE [success |-> FALSE, voucher |-> NoCreds]

Min(S) == CHOOSE x \in S : \A y \in S : x <= y

\* (mutant: the status test is missing from the predicate of find)
findPendingAnyStatus(amount, smsPhone) ==
  LET hits == {i \in DOMAIN pendingPayments :
                 /\ pendingPayments[i].amount = amount
                 /\ pendingPayments[i].phone = smsPhone}
  IN  IF hits = {} THEN 0 ELSE pendingPayments[Min(hits)].id

\* (mutant: the last matching key is taken, not the first)
findPendingLast(amount, smsPhone) ==
  LET hits == {i \in DOMAIN pendingPayments :
                 /\ pendingPayments[i].status = "PENDING"
                 /\ pendingPayments[i].amount = amount
                 /\ pendingPayments[i].phone = smsPhone}
  IN  IF hits = {} THEN 0
      ELSE pendingPayments[CHOOSE x \in hits : \A y \in hits : y <= x].id

\* Object.keys(pendingPayments).find(id => PENDING && amount && phone):
\* the first key, in insertion order, whose entry matches; 0 when none does.
findPending(amount, smsPhone) ==
  LET hits == {i \in DOMAIN pendingPayments :
                 /\ pendingPayments[i].status = "PENDING"
                 /\ pendingPayments[i].amount = amount
                 /\ pendingPayments[i].phone = smsPhone}
  IN  IF hits = {} THEN 0 ELSE pendingPayments[Min(hits)].id

\* (mutant: the subtraction is the wrong way round)
ExpiredReversed(p) == 0 - p.age > ExpiryMs

\* (mutant: only PENDING entries expire)
ExpiredPendingOnly(p) == p.status = "PENDING" /\ p.age > ExpiryMs

\* (mutant: an entry expires as soon as it is 7 minutes old)
ExpiredAtLimit(p) == p.age >= ExpiryMs

\* now - pendingPayments[id].createdAt > 7 * 60 * 1000
Expired(p) == p.age > ExpiryMs

(***************************************************************************)
(* POST /ussd/init                                                         *)
(***************************************************************************)
\* !phone || !amount || !offer
MissingParams(phone, amount, offer) ==
  phone = <<>> \/ amount = 0 \/ offer = ""

NewPayment(phone, amount, offer) ==
  [id |-> nextId, phone |-> normalizePhone(phone), amount |-> amount,
   offer |-> offer, status |-> "PENDING", age |-> 0]

UssdInit(phone, amount, offer) ==
  /\ nextId <= MaxSessions
  /\ IF MissingParams(phone, amount, offer)
       THEN UNCHANGED <<pendingPayments, nextId>>
       ELSE /\ pendingPayments' = Append(pendingPayments, NewPayment(phone, amount, offer))
            /\ nextId' = nextId + 1
  /\ UNCHANGED <<vouchers, mikrotikReady, reconnecting, connected, connectCalls,
                 timers, hotspotUsers, sms>>

(***************************************************************************)
(* Expiry sweeper and clock                                                *)
(***************************************************************************)
Sweep ==
  /\ pendingPayments' = SelectSeq(pendingPayments, LAMBDA p : ~Expired(p))
  /\ UNCHANGED <<vouchers, mikrotikReady, reconnecting, connected, connectCalls,
                 timers, hotspotUsers, sms, nextId>>

\* Time passes: every entry of the registry is ExpiryMs older.  Past ExpiryMs
\* an age is not told apart from any greater one (line 224 only compares it).
Older(p) == [p EXCEPT !.age = IF @ > ExpiryMs THEN @ ELSE @ + ExpiryMs]

Tick ==
  /\ pendingPayments' = [i \in DOMAIN pendingPayments |-> Older(pendingPayments[i])]
  /\ UNCHANGED <<vouchers, mikrotikReady, reconnecting, connected,
                 connectCalls, timers, hotspotUsers, sms, nextId>>

(***************************************************************************)
(* Device connection manager                                               *)
(***************************************************************************)
\* (mutant: the second test of mikrotikReady, and its throw, are missing)
ensureMikrotikNoThrow(ready, guard) ==
  IF ready \/ guard THEN "ready" ELSE "connect"

\* (mutant: the first test of mikrotikReady is missing)
ensureMikrotikAlwaysConnect(ready, guard) ==
  IF guard THEN "unavailable" ELSE "connect"

\* ensureMikrotik(), up to its first wait, from the flags it reads:
\*   "ready"       mikrotikReady: returns at once;
\*   "unavailable" connectMikrotik() returned at its guard (reconnecting) and
\*                 mikrotikReady is still false: throws;
\*   "connect"     connectMikrotik() passed its guard and waits on connect().
ensureMikrotik(ready, guard) ==
  IF ready THEN "ready"
  ELSE IF guard THEN "unavailable"
  ELSE "connect"

\* (mutant: the guard does not test reconnecting)
connectMikrotikUnguarded(kind) ==
  IF mikrotikReady
    THEN UNCHANGED <<reconnecting, connectCalls>>
    ELSE /\ reconnecting' = TRUE
         /\ connectCalls' = connectCalls \cup {Caller(kind, 0)}

\* connectMikrotik() called from the listen callback or from a timer
connectMikrotik(kind) ==
  IF mikrotikReady \/ reconnecting
    THEN UNCHANGED <<reconnecting, connectCalls>>
    ELSE /\ reconnecting' = TRUE
         /\ connectCalls' = connectCalls \cup {Caller(kind, 0)}

\* (mutant: the connection is closed and mikrotikReady is left as it was)
safeDisconnectKeepsFlag ==
  /\ mikrotikReady' = mikrotikReady
  /\ connected' = FALSE

\* mikrotikReady = false; mikrotik.close?.()
safeDisconnect ==
  /\ mikrotikReady' = FALSE
  /\ connected' = FALSE

\* mikrotik.on('error', ...)
MikrotikError ==
  /\ reconnecting \/ timers < MaxTimers
  /\ safeDisconnect
  /\ timers' = IF reconnecting THEN timers ELSE timers + 1
  /\ UNCHANGED <<pendingPayments, vouchers, reconnecting, connectCalls,
                 hotspotUsers, sms, nextId>>

\* a setTimeout(connectMikrotik, 5000) comes due
TimerFire ==
  /\ timers > 0
  /\ timers' = timers - 1
  /\ connectMikrotik("timer")
  /\ UNCHANGED <<pendingPayments, vouchers, mikrotikReady, connected,
                 hotspotUsers, sms, nextId>>

(***************************************************************************)
(* POST /sms/incoming and generateVoucher                                  *)
(***************************************************************************)
\* (mutant: a failed issuance is not caught and the request gets no answer)
DoneUncaught(r, outcome) ==
  [r EXCEPT !.pc = "done", !.outcome = outcome,
            !.acks = IF outcome = "failed" THEN @ ELSE @ + 1,
            !.creds = NoCreds]

\* the request ends: res.sendStatus(200)
\* (the locals of the request are dropped with it)
Done(r, outcome) ==
  [r EXCEPT !.pc = "done", !.outcome = outcome, !.acks = @ + 1,
            !.creds = NoCreds]

\* (mutant: the retry draws new credentials)
retryCredsFresh(creds) == CHOOSE c \in Creds : c # creds

\* the credentials of the second write
retryCreds(creds) == creds

\* (mutant: the finally block is missing)
IssuanceFailedKept(sid, reg) ==
  /\ pendingPayments' = reg
  /\ vouchers' = vouchers

\* (mutant: the store is written after the try block, whatever its outcome)
IssuanceFailedStored(sid, reg) ==
  /\ pendingPayments' = Remove(reg, sid)
  /\ vouchers' = Put(vouchers, sid, NoCreds)

\* catch (err) {...} finally { delete pendingPayments[sessionId] }
IssuanceFailed(sid, reg) ==
  /\ pendingPayments' = Remove(reg, sid)
  /\ vouchers' = vouchers

\* (mutant: the voucher is stored but the session is not deleted)
IssuanceSucceededKept(sid, voucher, reg) ==
  /\ pendingPayments' = reg
  /\ vouchers' = Put(vouchers, sid, voucher)

\* vouchers[sessionId] = voucher; finally { delete pendingPayments[sessionId] }
IssuanceSucceeded(sid, voucher, reg) ==
  /\ pendingPayments' = Remove(reg, sid)
  /\ vouchers' = Put(vouchers, sid, voucher)

\* (mutant: the sender is not tested against /mvola/i)
RejectedAnySender(sender, message) ==
  \/ sender = <<>> \/ message.empty
  \/ message.amt = <<>>
  \/ message.phone = <<>>

\* the handler returns before it looks for a session
Rejected(sender, message) ==
  \/ sender = <<>> \/ message.empty
  \/ ~IsMvola(sender)
  \/ message.amt = <<>>
  \/ message.phone = <<>>

SmsIncoming(sender, message) ==
  /\ \E h \in Handlers : sms[h].pc = "idle"
  /\ LET h   == Min({k \in Handlers : sms[k].pc = "idle"})
         rej == Rejected(sender, message)
         sid == IF rej THEN 0
                ELSE findPending(ParseAmount(message.amt),
                                 normalizePhone(message.phone))
     IN
     IF sid = 0 THEN
       /\ sms' = [sms EXCEPT ![h] = Done(@, IF rej THEN "rejected" ELSE "nomatch")]
       /\ UNCHANGED <<pendingPayments, vouchers, mikrotikReady, reconnecting,
                      connected, connectCalls, timers, hotspotUsers>>
     ELSE
       LET reg   == Confirm(pendingPayments, sid)
           offer == Entry(reg, sid).offer
           r     == [sms[h] EXCEPT !.sid = sid]
       IN
       IF offer \notin DOMAIN profileMap THEN
         /\ pendingPayments' = reg
         /\ sms' = [sms EXCEPT ![h] = Done(r, "unmapped")]
         /\ UNCHANGED <<vouchers, mikrotikReady, reconnecting, connected,
                        connectCalls, timers, hotspotUsers>>
       ELSE
         LET e  == ensureMikrotik(mikrotikReady, reconnecting)
         IN
         /\ UNCHANGED <<mikrotikReady, connected, timers, hotspotUsers>>
         /\ CASE e = "ready" ->
                   /\ \E c \in Creds :
                        sms' = [sms EXCEPT ![h] =
                                  [r EXCEPT !.pc = "write1", !.creds = c]]
                   /\ pendingPayments' = reg
                   /\ UNCHANGED <<vouchers, reconnecting, connectCalls>>
              [] e = "unavailable" ->
                   /\ sms' = [sms EXCEPT ![h] = Done(r, "failed")]
                   /\ IssuanceFailed(sid, reg)
                   /\ UNCHANGED <<reconnecting, connectCalls>>
              [] e = "connect" ->
                   /\ sms' = [sms EXCEPT ![h] =
                                [r EXCEPT !.pc = "connect1"]]
                   /\ pendingPayments' = reg
                   /\ reconnecting' = TRUE
                   /\ connectCalls' = connectCalls \cup {Caller("sms", h)}
                   /\ UNCHANGED vouchers
  /\ UNCHANGED <<nextId>>

\* mikrotik.connect() returns to the connectMikrotik call that started it, and
\* that call's awaiters run on.
ConnectReturn(c, ok) ==
  /\ c \in connectCalls
  /\ connectCalls' = connectCalls \ {c}
  /\ mikrotikReady' = ok
  /\ reconnecting' = FALSE
  /\ connected' = ok
  /\ IF c.kind # "sms" THEN UNCHANGED <<pendingPayments, vouchers, sms>>
     ELSE IF ~ok THEN
       /\ sms' = [sms EXCEPT ![c.h] = Done(@, "failed")]
       /\ IssuanceFailed(sms[c.h].sid, pendingPayments)
     ELSE
       /\ IF sms[c.h].pc = "connect1"
            THEN \E k \in Creds :
                   sms' = [sms EXCEPT ![c.h] =
                             [@ EXCEPT !.pc = "write1", !.creds = k]]
            ELSE sms' = [sms EXCEPT ![c.h] =
                           [@ EXCEPT !.pc = "write2", !.creds = retryCreds(@)]]
       /\ UNCHANGED <<pendingPayments, vouchers>>
  /\ UNCHANGED <<timers, hotspotUsers, nextId>>

\* The controller's answer to '/ip/hotspot/user/add': "ok" (user added),
\* "error" (nothing added; a duplicate name is always refused) or "lost"
\* (user added, but the write fails: the answer timed out or the link dropped).
WriteResults == {"ok", "error", "lost"}

Names == {u.name : u \in hotspotUsers}

WriteReturn(h, res) ==
  /\ sms[h].pc \in {"write1", "write2"}
  /\ res # "error" => sms[h].creds.username \notin Names
  /\ hotspotUsers' =
       IF res = "error" THEN hotspotUsers
       ELSE hotspotUsers \cup {[name |-> sms[h].creds.username, by |-> sms[h].sid]}
  /\ IF res = "ok" THEN
       /\ sms' = [sms EXCEPT ![h] = Done(@, "issued")]
       /\ IssuanceSucceeded(sms[h].sid, sms[h].creds, pendingPayments)
       /\ UNCHANGED <<mikrotikReady, reconnecting, connected, connectCalls>>
     ELSE IF sms[h].pc = "write2" THEN
       /\ sms' = [sms EXCEPT ![h] = Done(@, "failed")]
       /\ IssuanceFailed(sms[h].sid, pendingPayments)
       /\ UNCHANGED <<mikrotikReady, reconnecting, connected, connectCalls>>
     ELSE
       \* safeDisconnect(); await ensureMikrotik();
       /\ safeDisconnect
       /\ IF ensureMikrotik(FALSE, reconnecting) = "unavailable" THEN
            /\ sms' = [sms EXCEPT ![h] = Done(@, "failed")]
            /\ IssuanceFailed(sms[h].sid, pendingPayments)
            /\ UNCHANGED <<reconnecting, connectCalls>>
          ELSE
            /\ sms' = [sms EXCEPT ![h] =
                         [@ EXCEPT !.pc = "connect2"]]
            /\ reconnecting' = TRUE
            /\ connectCalls' = connectCalls \cup {Caller("sms", h)}
            /\ UNCHANGED <<pendingPayments, vouchers>>
  /\ UNCHANGED <<timers, nextId>>

(***************************************************************************)
(* Specification                                                           *)
(***************************************************************************)
Next ==
  \/ \E r \in IntakeRequests : UssdInit(r.phone, r.amount, r.offer)
  \/ \E n \in Notifications : SmsIncoming(n.sender, n.message)
  \/ \E c \in connectCalls, ok \in BOOLEAN : ConnectReturn(c, ok)
  \/ \E h \in Handlers, res \in WriteResults : WriteReturn(h, res)
  \/ MikrotikError
  \/ TimerFire
  \/ Sweep
  \/ Tick

Spec == Init /\ [][Next]_vars

\* Every device call returns (the transport's timeout), timers come due, the
\* sweeper's interval keeps firing and time passes.
Fairness ==
  /\ \A h \in Handlers :
       /\ WF_vars(\E ok \in BOOLEAN : ConnectReturn(Caller("sms", h), ok))
       /\ WF_vars(\E res \in WriteResults : WriteReturn(h, res))
  /\ WF_vars(\E ok \in BOOLEAN : ConnectReturn(Caller("startup", 0), ok))
  /\ WF_vars(\E ok \in BOOLEAN : ConnectReturn(Caller("timer", 0), ok))
  /\ WF_vars(TimerFire)
  /\ WF_vars(Sweep)
  /\ WF_vars(Tick)

FairSpec == Spec /\ Fairness

(***************************************************************************)
(* Properties                                                              *)
(***************************************************************************)
InFlight == {"connect1", "write1", "connect2", "write2"}

Created == 1..(nextId - 1)

Pending(reg, sid) == sid \in Ids(reg) /\ Entry(reg, sid).status = "PENDING"

Confirmed(reg, sid) == sid \in Ids(reg) /\ Entry(reg, sid).status = "CONFIRMED"

SameKey(p, q) == p.amount = q.amount /\ p.phone = q.phone

\* C1: a session is selected by at most one notification: no two requests of
\* /sms/incoming, however they interleave, hold the same sessionId.
C1_MatchedOnce ==
  \A h1, h2 \in Handlers :
     (h1 # h2 /\ sms[h1].sid # 0) => sms[h1].sid # sms[h2].sid

\* a notification was handled while an earlier one, for the same amount and
\* phone, was still waiting on the device with its session CONFIRMED
C1_Witness ==
  \E h1, h2 \in Handlers :
     /\ h1 < h2
     /\ sms[h1].pc \in InFlight
     /\ Confirmed(pendingPayments, sms[h1].sid)
     /\ sms[h2].pc # "idle"
     /\ sms[h2].outcome # "rejected"

\* C2: for every session at most one hotspot user is created on the
\* controller and at most one issuance ends with a voucher stored under it.
C2_ProvisionedOnce ==
  \A s \in 1..MaxSessions :
     /\ Cardinality({u \in hotspotUsers : u.by = s}) <= 1
     /\ Cardinality({h \in Handlers : sms[h].sid = s /\ sms[h].outcome = "issued"}) <= 1

\* the first write created the user but failed, and the retry is in flight
C2_Witness ==
  \E h \in Handlers :
     /\ sms[h].pc = "write2"
     /\ \E u \in hotspotUsers : u.by = sms[h].sid

\* C3: the session a notification selects is no younger than any PENDING
\* session of the registry with the same amount and phone.
C3_OldestFirst ==
  [][\A h \in Handlers :
       (sms[h].sid = 0 /\ sms'[h].sid # 0) =>
          /\ Pending(pendingPayments, sms'[h].sid)
          /\ \A i \in DOMAIN pendingPayments :
               (/\ pendingPayments[i].status = "PENDING"
                /\ SameKey(pendingPayments[i], Entry(pendingPayments, sms'[h].sid)))
               => Entry(pendingPayments, sms'[h].sid).age
                    >= pendingPayments[i].age]_vars

\* a session was selected while a younger PENDING duplicate is in the registry
C3_Witness ==
  \E h \in Handlers :
     /\ sms[h].pc \in InFlight
     /\ sms[h].sid \in Ids(pendingPayments)
     /\ \E i \in DOMAIN pendingPayments :
          /\ pendingPayments[i].status = "PENDING"
          /\ SameKey(pendingPayments[i], Entry(pendingPayments, sms[h].sid))
          /\ pendingPayments[i].age < Entry(pendingPayments, sms[h].sid).age

\* C7: a voucher, once written, is never changed and never deleted:
\* get_voucher keeps returning it, found, with the same username and password.
C7_VoucherImmutable ==
  [][\A s \in DOMAIN vouchers :
       /\ get_voucher(s).success
       /\ get_voucher(s)' = get_voucher(s)]_vars

\* a voucher is in the store, another session has since outlived the expiry
\* window, and a later notification has been handled
C7_Witness ==
  \E s \in DOMAIN vouchers, h \in Handlers :
     /\ sms[h].sid = s
     /\ \E i \in DOMAIN pendingPayments : Expired(pendingPayments[i])
     /\ \E h2 \in Handlers : h2 > h /\ sms[h2].pc = "done"

\* C8: after a failed issuance the session is gone from the registry, no
\* voucher is stored under it, and no other notification holds it.
C8_FailedIsFinal ==
  \A h \in Handlers :
     (sms[h].pc = "done" /\ sms[h].outcome = "failed") =>
        /\ sms[h].sid \notin Ids(pendingPayments)
        /\ ~get_voucher(sms[h].sid).success
        /\ \A h2 \in Handlers : h2 # h => sms[h2].sid # sms[h].sid

\* an issuance failed, and a later notification has been handled since
C8_Witness ==
  \E h, h2 \in Handlers :
     /\ h < h2
     /\ sms[h].outcome = "failed"
     /\ sms[h2].pc = "done"
     /\ sms[h2].outcome # "rejected"

\* C9 (as claimed): every session of the registry was created from valid
\* input: phone, amount and offer present and the offer mapped to a profile.
C9_OnlyValidSessions ==
  \A i \in DOMAIN pendingPayments :
     /\ pendingPayments[i].phone # <<>>
     /\ pendingPayments[i].amount # 0
     /\ pendingPayments[i].offer \in DOMAIN profileMap

\* the notification passes the sender filter and both extractions, and no
\* PENDING session of the registry has its amount and phone
Unmatched(sender, message) ==
  /\ ~message.empty /\ sender # <<>> /\ IsMvola(sender)
  /\ message.amt # <<>> /\ message.phone # <<>>
  /\ ~\E i \in DOMAIN pendingPayments :
        /\ pendingPayments[i].status = "PENDING"
        /\ pendingPayments[i].amount = ParseAmount(message.amt)
        /\ pendingPayments[i].phone = normalizePhone(message.phone)

\* C4: the session a notification selects was PENDING and is CONFIRMED by the
\* same step; a CONFIRMED session leaves the registry, at the latest at the
\* end of a successful issuance, and never comes back; a notification that
\* finds no PENDING session for its amount and phone (the repeat delivery)
\* changes neither registry, voucher store, controller nor connection.
C4_Selected ==
  \A h \in Handlers :
     (sms[h].sid = 0 /\ sms'[h].sid # 0) =>
        /\ Pending(pendingPayments, sms'[h].sid)
        /\ ~Pending(pendingPayments', sms'[h].sid)

C4_Gone ==
  \A s \in Created : s \notin Ids(pendingPayments) => s \notin Ids(pendingPayments')

C4_Repeat ==
  \A n \in Notifications :
     (Unmatched(n.sender, n.message) /\ SmsIncoming(n.sender, n.message)) =>
        UNCHANGED <<pendingPayments, vouchers, hotspotUsers, mikrotikReady,
                    reconnecting, connected, connectCalls, timers>>

C4_MatchConfirmRemove ==
  /\ \A s \in 1..MaxSessions :
        Confirmed(pendingPayments, s) ~> (s \notin Ids(pendingPayments))
  /\ [](\A h \in Handlers :
          sms[h].outcome = "issued" => sms[h].sid \notin Ids(pendingPayments))
  /\ [][C4_Selected /\ C4_Gone /\ C4_Repeat]_vars

\* a session was selected, its voucher issued and the session removed, and a
\* later notification found nothing to match
C4_Witness ==
  \E h, h2 \in Handlers :
     /\ h < h2
     /\ sms[h].outcome = "issued"
     /\ sms[h].sid \notin Ids(pendingPayments)
     /\ sms[h2].outcome = "nomatch"

\* C5: a PENDING session older than the expiry window leaves the registry,
\* and a session that left the registry without having been selected is
\* never selected afterwards, never gets a voucher and never comes back.
C5_NeverSelected(s) == \A h \in Handlers : sms[h].sid # s

C5_ExpiredIsFinal ==
  /\ \A s \in 1..MaxSessions :
        (/\ Pending(pendingPayments, s)
         /\ Entry(pendingPayments, s).age > ExpiryMs)
        ~> (s \notin Ids(pendingPayments))
  /\ [][\A s \in Created :
          (s \notin Ids(pendingPayments) /\ C5_NeverSelected(s)) =>
             /\ C5_NeverSelected(s)'
             /\ s \notin Ids(pendingPayments')
             /\ ~get_voucher(s)'.success]_vars

\* a session was swept unselected, and a notification handled later found
\* nothing to match
C5_Witness ==
  \E s \in Created, h \in Handlers :
     /\ s \notin Ids(pendingPayments)
     /\ C5_NeverSelected(s)
     /\ sms[h].outcome = "nomatch"
     /\ pendingPayments = <<>>
     /\ vouchers = <<>>

\* C6 (as claimed): an issuance that finds the connection down has a
\* reconnection attempted for it before it can fail; an issuance that ends
\* well has its voucher stored under the session id; one that fails stores
\* no voucher and its session is removed.
C6_Reconnects ==
  \A h \in Handlers :
     (/\ sms[h].pc = "idle"
      /\ sms'[h].sid # 0
      /\ Entry(pendingPayments, sms'[h].sid).offer \in DOMAIN profileMap
      /\ ~mikrotikReady)
     => sms'[h].pc = "connect1"

C6_Outcome ==
  \A h \in Handlers :
     /\ (sms[h].pc \in InFlight /\ sms'[h].outcome = "issued")
           => /\ sms[h].sid \in DOMAIN vouchers'
              /\ vouchers'[sms[h].sid] = sms[h].creds
     /\ (sms[h].pc # "done" /\ sms'[h].outcome = "failed")
           => /\ sms'[h].sid \notin DOMAIN vouchers'
              /\ sms'[h].sid \notin Ids(pendingPayments')

C6_OneReconnectAndRetry == [][C6_Reconnects /\ C6_Outcome]_vars

\* C10: every delivered notification is acknowledged, once, whatever its
\* outcome, and nothing is acknowledged twice or before its handling ends.
C10_AlwaysAcked ==
  /\ \A h \in Handlers :
        (sms[h].pc # "idle") ~> (sms[h].pc = "done" /\ sms[h].acks = 1)
  /\ [](\A h \in Handlers :
          /\ sms[h].acks <= 1
          /\ sms[h].pc = "done" => sms[h].acks = 1)

\* one notification ended in a failed issuance and another in a voucher,
\* both acknowledged
C10_Witness ==
  \E h, h2 \in Handlers :
     /\ sms[h].outcome = "failed"  /\ sms[h].acks = 1
     /\ sms[h2].outcome = "issued" /\ sms[h2].acks = 1

\* C11: at most one call of mikrotik.connect() is waiting for its outcome,
\* whoever asked for it: the listen callback, a timer or an issuance.
C11_OneConnectInFlight == Cardinality(connectCalls) <= 1

\* an issuance asked for the connection while the attempt of an earlier one
\* was in flight, and no second attempt was started
C11_Witness ==
  \E h, h2 \in Handlers :
     /\ h < h2
     /\ sms[h].pc = "connect1"
     /\ connectCalls = {Caller("sms", h)}
     /\ sms[h2].sid # 0
     /\ sms[h2].outcome = "failed"

\* C12 (as claimed): an issuance that finds a connection attempt in flight
\* waits for it: it never fails for want of the device in the very step in
\* which it called ensureMikrotik, while the attempt is still undecided.
C12_WaitsForAttempt ==
  [][\A h \in Handlers :
       (sms[h].pc \in {"idle", "write1"} /\ sms'[h].outcome = "failed")
          => ~reconnecting]_vars

\* C13: an issuance goes write, forced disconnection, reconnection, second
\* write and no further: the second write follows a successful reconnection
\* after a failed first write and carries the same username and password, and
\* whatever the second write returns ends the issuance, a failure with no
\* voucher stored.
C13_Order ==
  \A h \in Handlers :
     /\ (sms'[h].pc = "write1" /\ sms[h].pc # "write1")
           => sms[h].pc \in {"idle", "connect1"}
     /\ (sms'[h].pc = "connect2" /\ sms[h].pc # "connect2")
           => /\ sms[h].pc = "write1"
              /\ ~mikrotikReady'
              /\ sms'[h].creds = sms[h].creds
              /\ sms[h].sid \notin DOMAIN vouchers'
     /\ (sms'[h].pc = "write2" /\ sms[h].pc # "write2")
           => /\ sms[h].pc = "connect2"
              /\ mikrotikReady'
              /\ sms[h].creds \in Creds
              /\ sms'[h].creds = sms[h].creds
     /\ (sms[h].pc = "write2" /\ sms'[h].pc # "write2")
           => /\ sms'[h].pc = "done"
              /\ sms'[h].outcome = "failed" => sms[h].sid \notin DOMAIN vouchers'
     /\ sms[h].pc = "done" => sms'[h] = sms[h]

C13_RetryOnceSameCreds == [][C13_Order]_vars

\* the first write was refused outright and the second one is in flight
C13_Witness ==
  \E h \in Handlers :
     /\ sms[h].pc = "write2"
     /\ sms[h].creds \in Creds
     /\ ~\E u \in hotspotUsers : u.by = sms[h].sid

\* C14: a create-user command is written only with mikrotikReady true, and
\* an issuance that fails because ensureMikrotik threw writes no command in
\* that step: the controller's users and the voucher store are unchanged, and
\* when it was the first call no user of that session exists at all.
C14_WrittenWhenReady ==
  \A h \in Handlers :
     (sms'[h].pc \in {"write1", "write2"} /\ sms'[h].pc # sms[h].pc)
        => mikrotikReady'

C14_FailsUnwritten ==
  \A h \in Handlers :
     (sms[h].pc \in {"idle", "connect1", "connect2"} /\ sms'[h].outcome = "failed")
        => /\ hotspotUsers' = hotspotUsers
           /\ vouchers' = vouchers
           /\ sms'[h].sid \notin DOMAIN vouchers'
           /\ sms[h].pc # "connect2"
                => ~\E u \in hotspotUsers' : u.by = sms'[h].sid

C14_WriteOnlyWhenReady == [][C14_WrittenWhenReady /\ C14_FailsUnwritten]_vars

\* an issuance failed for want of the device and left nothing on the
\* controller, while another one got its voucher
C14_Witness ==
  \E h, h2 \in Handlers :
     /\ sms[h].outcome = "failed"
     /\ ~\E u \in hotspotUsers : u.by = sms[h].sid
     /\ sms[h2].outcome = "issued"
     /\ ~mikrotikReady

\* C15: ensureMikrotik called with the connection ready goes on to the write
\* and starts no connect; called with the connection down and no attempt in
\* flight it sets the guard and starts exactly one connect; when an attempt
\* returns the guard is cleared, and its caller writes if the connection is
\* ready and fails if it is not; the guard is set exactly while an attempt is
\* in flight and never stays set for ever.
C15_Calls(h) ==
  /\ sms[h].pc = "idle"
  /\ sms'[h].sid # 0
  /\ Entry(pendingPayments, sms'[h].sid).offer \in DOMAIN profileMap

C15_Ready ==
  \A h \in Handlers :
     (C15_Calls(h) /\ mikrotikReady) =>
        /\ sms'[h].pc = "write1"
        /\ UNCHANGED <<mikrotikReady, reconnecting, connectCalls>>

C15_Disconnected ==
  \A h \in Handlers :
     (C15_Calls(h) /\ ~mikrotikReady /\ ~reconnecting) =>
        /\ sms'[h].pc = "connect1"
        /\ reconnecting'
        /\ connectCalls = {}
        /\ connectCalls' = {Caller("sms", h)}

C15_Completes ==
  \A c \in connectCalls :
     c \notin connectCalls' =>
        /\ ~reconnecting'
        /\ c.kind = "sms" =>
             IF mikrotikReady'
               THEN sms'[c.h].pc \in {"write1", "write2"}
               ELSE sms'[c.h].pc = "done" /\ sms'[c.h].outcome = "failed"

C15_StateMachine ==
  /\ reconnecting ~> ~reconnecting
  /\ [](reconnecting <=> connectCalls # {})
  /\ [][C15_Ready /\ C15_Disconnected /\ C15_Completes]_vars

\* one issuance found the connection down, connected and is writing; another
\* one's attempt failed; no attempt is in flight and the connection is ready
C15_Witness ==
  \E h, h2 \in Handlers :
     /\ sms[h].outcome = "failed"
     /\ sms[h].sid # 0
     /\ sms[h2].pc = "write1"
     /\ mikrotikReady
     /\ ~reconnecting
     /\ connectCalls = {}

\* C16 (as claimed): whatever the error callbacks that ran, at most one
\* setTimeout(connectMikrotik, 5000) is outstanding.
C16_OneTimerOutstanding == timers <= 1

\* C17 (as claimed): a session that is CONFIRMED and whose issuance is still
\* waiting on the device stays in the registry for as long as the issuance
\* waits: only the end of the issuance removes it.
C17_ConfirmedNotSwept ==
  [][\A h \in Handlers :
       (/\ sms[h].pc \in InFlight
        /\ sms'[h].pc \in InFlight
        /\ Confirmed(pendingPayments, sms[h].sid))
       => sms[h].sid \in Ids(pendingPayments')]_vars

\* C18 (as claimed): once a notification that selected a session has been
\* acknowledged, that session is not in the registry.
C18_AckedIsRemoved ==
  \A h \in Handlers :
     (sms[h].pc = "done" /\ sms[h].sid # 0) => sms[h].sid \notin Ids(pendingPayments)

\* C19: every voucher of the store is that of a session created by intake,
\* selected by a notification whose issuance ended well, with the username of
\* a user the controller created for that session; its session is not PENDING.
C19_VoucherOnlyOnSuccess ==
  \A s \in DOMAIN vouchers :
     /\ s \in Created
     /\ \E h \in Handlers : sms[h].sid = s /\ sms[h].outcome = "issued"
     /\ [name |-> vouchers[s].username, by |-> s] \in hotspotUsers
     /\ vouchers[s] \in Creds
     /\ ~Pending(pendingPayments, s)

\* one session has its voucher while an issuance for another one failed
C19_Witness ==
  \E s \in DOMAIN vouchers, h \in Handlers :
     /\ sms[h].sid # 0
     /\ sms[h].sid # s
     /\ sms[h].outcome = "failed"
     /\ sms[h].sid \notin DOMAIN vouchers

\* C20: a tick of the sweeper removes the entries older than ExpiryMs,
\* whatever their status, keeps every other entry as it is and in order, and
\* changes neither the voucher store nor the connection; an entry that is
\* ExpiryMs old or younger leaves the registry only at the end of its issuance.
C20_Tick ==
  Sweep =>
     /\ \A i \in DOMAIN pendingPayments :
           IF pendingPayments[i].age > ExpiryMs
             THEN pendingPayments[i].id \notin Ids(pendingPayments')
             ELSE \E j \in DOMAIN pendingPayments' :
                     pendingPayments'[j] = pendingPayments[i]
     /\ Len(pendingPayments') <= Len(pendingPayments)
     /\ UNCHANGED <<vouchers, mikrotikReady, reconnecting, connected,
                    connectCalls, timers, hotspotUsers>>

C20_YoungKept ==
  \A i \in DOMAIN pendingPayments :
     (/\ pendingPayments[i].age <= ExpiryMs
      /\ pendingPayments[i].id \notin Ids(pendingPayments'))
     => \E h \in Handlers :
           /\ sms'[h].sid = pendingPayments[i].id
           /\ sms[h].pc # "done"
           /\ sms'[h].pc = "done"

C20_SweepsExactlyOverAge == [][C20_Tick /\ C20_YoungKept]_vars

\* an over-age session was swept unselected while a session exactly ExpiryMs
\* old is still in the registry
C20_Witness ==
  \E s \in Created :
     /\ s \notin Ids(pendingPayments)
     /\ C5_NeverSelected(s)
     /\ \E i \in DOMAIN pendingPayments : pendingPayments[i].age = ExpiryMs

\* C21: a notification that is dropped (no sender or message, a sender that
\* is not MVola, no amount or no phone in the message, or no PENDING session
\* with its amount and phone) changes neither the registry, the voucher
\* store, the connection, its attempts and timers nor the controller, and the
\* request that carried it ends holding no session.
C21_Dropped(sender, message) ==
  \/ sender = <<>>
  \/ message.empty
  \/ ~IsMvola(sender)
  \/ message.amt = <<>>
  \/ message.phone = <<>>
  \/ Unmatched(sender, message)

C21_RejectedIsNoOp ==
  [][\A n \in Notifications :
       (C21_Dropped(n.sender, n.message) /\ SmsIncoming(n.sender, n.message)) =>
          /\ UNCHANGED <<pendingPayments, vouchers, hotspotUsers, mikrotikReady,
                         reconnecting, connected, connectCalls, timers>>
          /\ \A h \in Handlers :
                /\ sms'[h].sid = sms[h].sid
                /\ sms'[h].pc \in {sms[h].pc, "done"}]_vars

\* one notification was rejected before the search and another found no
\* session, while a PENDING session waits in the registry
C21_Witness ==
  \E h, h2 \in Handlers :
     /\ sms[h].outcome = "rejected"
     /\ sms[h2].outcome = "nomatch"
     /\ \E s \in Created : Pending(pendingPayments, s)

\* C22: a notification takes at most one session: the step that selects a
\* session leaves every other entry of the registry as it was, no step
\* stores more than one voucher, and there are never more vouchers than
\* notifications that selected a session.
C22_OneSelected ==
  \A h \in Handlers :
     (sms[h].sid = 0 /\ sms'[h].sid # 0) =>
        /\ \A i \in DOMAIN pendingPayments :
              pendingPayments[i].id # sms'[h].sid =>
                 \E j \in DOMAIN pendingPayments' :
                    pendingPayments'[j] = pendingPayments[i]
        /\ Cardinality({s \in Ids(pendingPayments) :
                          /\ Pending(pendingPayments, s)
                          /\ ~Pending(pendingPayments', s)}) = 1

C22_OneStored == Cardinality(DOMAIN vouchers' \ DOMAIN vouchers) <= 1

C22_OneSessionPerNotification ==
  /\ [](Cardinality(DOMAIN vouchers)
          <= Cardinality({h \in Handlers : sms[h].sid # 0}))
  /\ [][C22_OneSelected /\ C22_OneStored]_vars

\* a voucher was issued for one of two sessions with the same amount and
\* phone, and the other is still PENDING
C22_Witness ==
  \E s \in DOMAIN vouchers, i \in DOMAIN pendingPayments :
     /\ pendingPayments[i].status = "PENDING"
     /\ pendingPayments[i].id > s
     /\ pendingPayments[i].amount = 1000
     /\ pendingPayments[i].phone = normalizePhone(SmsPhoneA)
     /\ Cardinality({h \in Handlers : sms[h].sid # 0}) = 1

C24_OneShotReconnect ==
  [][(/\ Caller("timer", 0) \in connectCalls
      /\ Caller("timer", 0) \notin connectCalls'
      /\ ~mikrotikReady')
     => /\ ~reconnecting'
        /\ connectCalls' = {}
        /\ timers' = 0]_vars

====
